---- MODULE Spec2Model ----
(***************************************************************************)
(* A model of daynews-app: the conversion supervisor                       *)
(* (EbookGenerator.generate_ebook), the recipe builder                     *)
(* (EbookGenerator.create_recipe_file) and the pipeline driver (main).     *)
(*                                                                         *)
(* Three specifications share the variables:                               *)
(*   Spec        one call of generate_ebook and the child it supervises    *)
(*   RecipeSpec  one call of create_recipe_file, on bounded inputs         *)
(*   MainSpec    one run of main                                           *)
(***************************************************************************)
EXTENDS Integers, Sequences, FiniteSets, TLC

VARIABLES
    \* ---- generate_ebook: arguments and environment at the call
    pc,              \* position of the supervisor in generate_ebook
    test_mode,       \* argument test_mode
    low_memory,      \* argument low_memory
    timeout,         \* argument timeout, in clock ticks
    recipe_exists,   \* os.path.isfile(recipe_path)
    show_progress,   \* argument show_progress
    outdir_exists,   \* os.path.exists(output_dir)
    help_probe,      \* how the run of "ebook-convert --help" ends
    \* ---- generate_ebook: locals
    cmd,             \* the argument list handed to Popen, <<>> before
    spawn_count,     \* number of Popen calls of the conversion command
    start_time,      \* local start_time
    elapsed_time,    \* local elapsed_time
    stdout_data,     \* local stdout_data
    stderr_data,     \* local stderr_data
    feeds_processed, \* local feeds_processed
    last_update,     \* local last_update
    console,         \* what print() has written, one entry per message
    detail_log,      \* the stderr lines written to the log by logger.error
    summary,         \* the stderr lines printed as error details
    warnings,        \* what logger.warning has written, one entry per message
    result,          \* how the call ended: a returned value or a raised exception
    \* ---- the world around the call
    now,             \* the wall clock, time.time()
    advances,        \* number of times the clock has moved on
    child,           \* "none", "running", "exited"
    returncode,      \* the exit code of the child once it has exited
    term_sent,       \* process.terminate() delivered SIGTERM to a live child
    child_out,       \* every line the child wrote to stdout, in order
    child_err,       \* every line the child wrote to stderr, in order
    out_pipe,        \* lines in the OS pipe of stdout, not yet read
    err_pipe,        \* lines in the OS pipe of stderr, not yet read
    out_buf,         \* lines read from the pipe into process.stdout's buffer
    err_buf,         \* lines read from the pipe into process.stderr's buffer
    output_exists,   \* the file at output_path exists
    overrun,         \* history: the child was running while elapsed > timeout
    \* ---- create_recipe_file
    rpc,             \* "off", "call", "written"
    feeds_data,      \* argument feeds_data: [title, feeds]
    r_test_mode,     \* argument test_mode
    output_dir,      \* argument output_dir
    recipe_file,     \* the content of daynews_recipe.recipe, NoFile before
    r_recipe_path,   \* the path returned by the latest call, <<>> before
    r_calls,         \* number of calls of create_recipe_file made
    r_prev,          \* the mode, path and file of the call before the latest
    \* ---- main
    mpc,             \* position of main
    args,            \* parsed command line
    config_exists,   \* feeds.json exists
    email_config_exists, \* email_config.json exists
    tool_probe,      \* what 'ebook-convert --version' does on this machine
    feeds_config,    \* the content of feeds.json
    m_feeds,         \* main's feeds_data['feeds']
    fetch_calls,     \* number of feedparser.parse calls made
    recipe_calls,    \* number of calls of create_recipe_file made by main
    recipe_writes,   \* number of recipe files written
    email_calls,     \* number of calls of EmailSender.send_email made by main
    raised_at,       \* where the exception main caught was raised
    main_ret,        \* main's return value, NoRet before
    \* ---- EmailSender.send_email
    epc,             \* position in send_email: "off", "call", "connected", "returned"
    e_config,        \* the keys that email_config.json holds
    e_dry_run,       \* self.dry_run
    attachment_readable, \* open(attachment_path, 'rb') succeeds
    smtp_up,         \* the SMTP server accepts the connection and STARTTLS
    login_ok,        \* the SMTP server accepts the login
    smtp_connections, \* number of SMTP connections opened
    sent,            \* number of messages handed to the SMTP server
    e_ret            \* the value send_email returned, NoRet before

supVars == <<pc, test_mode, low_memory, timeout, recipe_exists, show_progress,
             outdir_exists, last_update, console, detail_log, summary,
             advances, cmd, spawn_count, start_time, elapsed_time, stdout_data,
             stderr_data, feeds_processed, result, now, child, returncode,
             term_sent, child_out, child_err, out_pipe, err_pipe,
             out_buf, err_buf, output_exists, overrun, help_probe, warnings>>
recVars == <<rpc, feeds_data, r_test_mode, output_dir, recipe_file, r_recipe_path,
             r_calls, r_prev>>
mainVars == <<mpc, args, config_exists, email_config_exists, tool_probe,
              feeds_config, m_feeds, fetch_calls, recipe_calls, recipe_writes,
              email_calls, raised_at, main_ret>>
emailVars == <<epc, e_config, e_dry_run, attachment_readable, smtp_up, login_ok,
               smtp_connections, sent, e_ret>>
vars == <<supVars, recVars, mainVars, emailVars>>

(***************************************************************************)
(* Bounds                                                                  *)
(***************************************************************************)
\* MaxTime bounds the number of times the clock moves on in a run.
MaxTime == 4
MaxLines == 2
MaxFeeds == 2
MaxCalls == 2
MaxErrLines == 11

\* One clock tick is one poll interval, the time.sleep(0.1) of the loop;
\* timeouts are counted in ticks.
SleepTicks == 1
TicksPerSecond == 10

Timeouts == {1, 2}

\* The default timeout of generate_ebook, 300 seconds.
DefaultTimeoutSeconds == 300
ExitCodes == {0, 1, 2}

Min(a, b) == IF a < b THEN a ELSE b

(***************************************************************************)
(* Values                                                                  *)
(***************************************************************************)
RecipePath == "output/daynews_recipe.recipe"
OutputPath == "output/DayNews.epub"

\* An exit code is <<c>>; None is <<>>.
NoCode == <<>>

\* A line of the child's output: the words it is made of, as written, and
\* whether it carries leading or trailing blanks (which str.strip removes).
\* A word is a marker the supervisor looks for, in some spelling, or other
\* text.
OutLines == {[words |-> <<"Processing feed">>, pad |-> FALSE],
             [words |-> <<"PROCESSING FEED", "Fetching">>, pad |-> TRUE],
             [words |-> <<"parsing", "Converting", "WARNING">>, pad |-> FALSE]}
ErrLines == {[words |-> <<"error">>, pad |-> FALSE],
             [words |-> <<"trace">>, pad |-> TRUE],
             [words |-> <<"Processing feed", "downloading">>, pad |-> FALSE]}

Strip(line) == [line EXCEPT !.pad = FALSE]

\* str.lower on the words that occur.
Lower(w) ==
    CASE w = "Processing feed" -> "processing feed"
      [] w = "PROCESSING FEED" -> "processing feed"
      [] w = "Fetching" -> "fetching"
      [] w = "Converting" -> "converting"
      [] w = "WARNING" -> "warning"
      [] OTHER -> w

\* marker in line
Contains(line, marker) == \E i \in 1..Len(line.words) : line.words[i] = marker

\* marker in line.lower()
LowerContains(line, marker) ==
    \E i \in 1..Len(line.words) : Lower(line.words[i]) = marker

\* Line 198.
HasFeedMarker(line) == Contains(line, "Processing feed")

\* One message on the console.
Shown(tag, n) == [tag |-> tag, n |-> n]

\* StdoutIndicator with the parsing test made before the downloading test.
StdoutIndicator_ParsingLast(line) ==
    IF LowerContains(line, "downloading") \/ LowerContains(line, "fetching") THEN "."
    ELSE IF LowerContains(line, "converting") THEN "C"
    ELSE IF LowerContains(line, "parsing") THEN "P"
    ELSE ""

\* Lines 203-208: the indicator printed for a stdout line that does not
\* announce a feed; "" when none is.
StdoutIndicator(line) ==
    IF LowerContains(line, "downloading") \/ LowerContains(line, "fetching") THEN "."
    ELSE IF LowerContains(line, "parsing") THEN "P"
    ELSE IF LowerContains(line, "converting") THEN "C"
    ELSE ""

\* Lines 198-208: what one stdout line puts on the console; n is the feed
\* counter after the line.
RenderStdout(line, n, progress) ==
    IF HasFeedMarker(line)
    THEN IF progress THEN <<Shown("feed", n)>> ELSE <<>>
    ELSE IF progress /\ StdoutIndicator(line) # ""
         THEN <<Shown(StdoutIndicator(line), 0)>>
         ELSE <<>>

\* Lines 217-218: what one stderr line puts on the console.
RenderStderr(line, progress) ==
    IF progress /\ (LowerContains(line, "error") \/ LowerContains(line, "warning"))
    THEN <<Shown("stderr", 0)>>
    ELSE <<>>

\* Lines 94-98.
TestBanner(test, progress) ==
    IF test /\ progress THEN <<Shown("test_banner", 0)>> ELSE <<>>

\* Lines 136-139.
StartBanner(progress) == IF progress THEN <<Shown("starting", 0)>> ELSE <<>>

\* Lines 186-187.
TimeoutMessage(progress) == IF progress THEN <<Shown("timed_out", 0)>> ELSE <<>>

\* Line 253: the number of stderr lines shown as error details.
SummaryLines == 10

\* LastLines that takes the lines from the head: lines[:n].
LastLines_First(lines, n) == SubSeq(lines, 1, Min(Len(lines), n))

\* Line 253: lines[-n:].
LastLines(lines, n) ==
    SubSeq(lines, Len(lines) - Min(Len(lines), n) + 1, Len(lines))

\* Lines 250-263: the error details (the last ten stderr lines) if progress
\* is shown, then the troubleshooting suggestions.
FailureReport(progress, errs) ==
    (IF progress
     THEN <<Shown("error_details", Len(LastLines(errs, SummaryLines)))>>
     ELSE <<>>)
    \o <<Shown("troubleshooting", 0)>>

\* Lines 274-279.
CompletionMessage(progress) ==
    IF progress THEN <<Shown("completed", 0)>> ELSE <<>>

\* Lines 220-221: the heartbeat is due more than ten seconds after the last
\* one, that is a hundred poll intervals.
HeartbeatSeconds == 10

\* HeartbeatDue with the heartbeat due as soon as ten seconds have passed.
HeartbeatDue_AtInterval(progress, t, last) ==
    progress /\ t - last >= HeartbeatSeconds * TicksPerSecond

HeartbeatDue(progress, t, last) ==
    progress /\ t - last > HeartbeatSeconds * TicksPerSecond

\* How a call ends.  A returned value has kind "return"; an exception that
\* leaves the call has kind "raise" and the attributes of the exception object.
NoResult == [kind |-> "none", value |-> "", exc |-> "", msg |-> <<>>,
             returncode |-> NoCode, stderr |-> <<>>]
ReturnValue(v) == [NoResult EXCEPT !.kind = "return", !.value = v]
Exception(type, msg) == [NoResult EXCEPT !.kind = "raise", !.exc = type, !.msg = msg]

\* subprocess.CalledProcessError(return_code, cmd): returncode is set, stderr
\* is left None.  str() of it names the exit status.
CalledProcessError(rc) ==
    [Exception("CalledProcessError", <<"non-zero exit status", rc>>)
        EXCEPT !.returncode = <<rc>>]

\* ExceptClauses without its clauses: the exception leaves the call as raised.
ExceptClauses_Propagate(e) == e

\* The except clauses that close generate_ebook: every exception raised in
\* the body leaves the call as a RuntimeError built from a message alone.
ExceptClauses(e) ==
    CASE e.exc = "FileNotFoundError" ->
            Exception("RuntimeError", <<"Failed to generate ebook">> \o e.msg)
      [] e.exc = "TimeoutExpired" ->
            Exception("RuntimeError", <<"Ebook generation timed out">>)
      [] e.exc = "CalledProcessError" ->
            Exception("RuntimeError", <<"Failed to generate ebook">> \o e.msg)
      [] OTHER ->
            Exception("RuntimeError", <<"Failed to generate ebook">> \o e.msg)

\* BuildCmd with the low-memory flags gated on low_memory alone.
BuildCmd_LowMemoryOnly(recipe_path, output_path, lm, tm) ==
    <<"ebook-convert", recipe_path, output_path, "--verbose">>
    \o (IF lm
        THEN <<"--output-profile", "mobile", "--no-process-images">>
        ELSE <<>>)
    \o (IF tm
        THEN <<"--timeout", "10", "--max-toc-links", "1">>
        ELSE <<>>)

\* Lines 114-134: the argument list of the conversion command.
BuildCmd(recipe_path, output_path, lm, tm) ==
    <<"ebook-convert", recipe_path, output_path, "--verbose">>
    \o (IF lm \/ tm
        THEN <<"--output-profile", "mobile", "--no-process-images">>
        ELSE <<>>)
    \o (IF tm
        THEN <<"--timeout", "10", "--max-toc-links", "1">>
        ELSE <<>>)

(***************************************************************************)
(* generate_ebook                                                          *)
(***************************************************************************)
SupIdle ==
    /\ pc = "off" /\ test_mode = FALSE /\ low_memory = FALSE /\ timeout = 0
    /\ recipe_exists = FALSE /\ outdir_exists = FALSE
    /\ show_progress = FALSE /\ last_update = 0 /\ console = <<>>
    /\ advances = 0 /\ detail_log = <<>> /\ summary = <<>>
    /\ cmd = <<>> /\ spawn_count = 0 /\ start_time = 0 /\ elapsed_time = 0
    /\ stdout_data = <<>> /\ stderr_data = <<>> /\ feeds_processed = 0
    /\ result = NoResult /\ now = 0 /\ child = "none" /\ returncode = NoCode
    /\ term_sent = FALSE /\ child_out = <<>> /\ child_err = <<>>
    /\ out_pipe = <<>> /\ err_pipe = <<>> /\ out_buf = <<>> /\ err_buf = <<>>
    /\ output_exists = FALSE /\ overrun = FALSE
    /\ help_probe = "ok" /\ warnings = <<>>

\* The state at the call of generate_ebook(recipe_path, output_path, ...).
SupInit ==
    /\ pc = "call"
    /\ test_mode \in BOOLEAN
    /\ low_memory \in BOOLEAN
    /\ timeout \in Timeouts
    /\ recipe_exists \in BOOLEAN
    /\ show_progress \in BOOLEAN
    /\ outdir_exists \in BOOLEAN
    /\ last_update = 0 /\ console = <<>> /\ advances = 0
    /\ detail_log = <<>> /\ summary = <<>>
    /\ cmd = <<>> /\ spawn_count = 0 /\ start_time = 0 /\ elapsed_time = 0
    /\ stdout_data = <<>> /\ stderr_data = <<>> /\ feeds_processed = 0
    /\ result = NoResult /\ now = 0 /\ child = "none" /\ returncode = NoCode
    /\ term_sent = FALSE /\ child_out = <<>> /\ child_err = <<>>
    /\ out_pipe = <<>> /\ err_pipe = <<>> /\ out_buf = <<>> /\ err_buf = <<>>
    /\ output_exists = FALSE /\ overrun = FALSE
    /\ help_probe = "ok" /\ warnings = <<>>

callVars == <<test_mode, low_memory, timeout, recipe_exists, show_progress>>
printVars == <<console, last_update>>
reportVars == <<detail_log, summary>>
probeVars == <<help_probe, warnings>>
childVars == <<child, returncode, child_out, child_err, out_pipe, err_pipe,
               output_exists>>
captureVars == <<stdout_data, stderr_data, feeds_processed, out_buf, err_buf>>

\* RecipeFound without the check: every path passes.
RecipeFound_Unchecked(exists) == TRUE

\* Line 103: os.path.isfile(recipe_path).
RecipeFound(exists) == exists

\* Lines 93-106: the test banner is shown; the recipe file is missing; FileNotFoundError is raised
\* before anything is run.
StartRecipeMissing ==
    /\ pc = "call"
    /\ ~RecipeFound(recipe_exists)
    /\ result' = ExceptClauses(Exception("FileNotFoundError", <<"Recipe file not found">>))
    /\ pc' = "returned"
    /\ UNCHANGED <<callVars, outdir_exists, cmd, spawn_count, start_time,
                   elapsed_time, captureVars, now, childVars, term_sent, overrun>>
    /\ console' = console \o TestBanner(test_mode, show_progress)
    /\ UNCHANGED last_update
    /\ UNCHANGED advances
    /\ UNCHANGED reportVars
    /\ UNCHANGED probeVars
    /\ UNCHANGED <<recVars, mainVars, emailVars>>

\* The ways the run of "ebook-convert --help" at lines 144-150 ends: exit
\* code 0, a non-zero exit code, no end within its 5 seconds, or
\* subprocess.run raising another exception.
HelpProbes == {"ok", "nonzero", "timeout", "raises"}

\* HelpProbe that lets the failure of the probe leave the try statement.
HelpProbe_Fatal(p) == [warnings |-> <<>>, raised |-> p # "ok"]

\* Lines 144-158: what the try statement around the probe writes with
\* logger.warning, and whether an exception leaves it.
HelpProbe(p) ==
    [warnings |-> CASE p = "ok" -> <<>>
                    [] p = "nonzero" -> <<"help_returncode", "help_stderr">>
                    [] OTHER -> <<"help_error">>,
     raised |-> FALSE]

\* Lines 93-170 when Popen does not find the tool: the banners are shown, the output directory is
\* made, the command built, the --help probe run (its failure only logged),
\* and Popen raises FileNotFoundError.
StartSpawnFails ==
    /\ pc = "call"
    /\ RecipeFound(recipe_exists)
    /\ outdir_exists' = TRUE
    /\ cmd' = BuildCmd(RecipePath, OutputPath, low_memory, test_mode)
    /\ warnings' = warnings \o HelpProbe(help_probe).warnings
    /\ IF HelpProbe(help_probe).raised
       THEN /\ result' = ExceptClauses(Exception("Exception", <<"ebook-convert --help">>))
            /\ UNCHANGED <<start_time, spawn_count>>
       ELSE /\ start_time' = now
            /\ spawn_count' = spawn_count + 1
            /\ result' = ExceptClauses(Exception("FileNotFoundError", <<"No such file or directory: ebook-convert">>))
    /\ pc' = "returned"
    /\ UNCHANGED <<callVars, elapsed_time, captureVars, now, childVars,
                   term_sent, overrun>>
    /\ console' = console \o TestBanner(test_mode, show_progress)
                        \o StartBanner(show_progress)
    /\ UNCHANGED last_update
    /\ UNCHANGED advances
    /\ UNCHANGED reportVars
    /\ UNCHANGED help_probe
    /\ UNCHANGED <<recVars, mainVars, emailVars>>

\* Lines 93-176 when Popen starts the child: the banners, the output
\* directory, the command, the --help probe (its failure only logged), then
\* the child is started and the locals of the loop are set.
StartSpawned ==
    /\ pc = "call"
    /\ RecipeFound(recipe_exists)
    /\ outdir_exists' = TRUE
    /\ cmd' = BuildCmd(RecipePath, OutputPath, low_memory, test_mode)
    /\ warnings' = warnings \o HelpProbe(help_probe).warnings
    /\ IF HelpProbe(help_probe).raised
       THEN /\ result' = ExceptClauses(Exception("Exception", <<"ebook-convert --help">>))
            /\ pc' = "returned"
            /\ UNCHANGED <<start_time, spawn_count, child, last_update>>
       ELSE /\ start_time' = now
            /\ spawn_count' = spawn_count + 1
            /\ child' = "running"
            /\ pc' = "poll"
            /\ last_update' = now
            /\ UNCHANGED result
    /\ UNCHANGED <<callVars, elapsed_time, captureVars, now, returncode,
                   child_out, child_err, out_pipe, err_pipe, output_exists,
                   term_sent, overrun>>
    /\ console' = console \o TestBanner(test_mode, show_progress)
                        \o StartBanner(show_progress)
    /\ UNCHANGED advances
    /\ UNCHANGED reportVars
    /\ UNCHANGED help_probe
    /\ UNCHANGED <<recVars, mainVars, emailVars>>

\* Line 179, the child is still running: enter the loop body.
PollRunning ==
    /\ pc = "poll"
    /\ child = "running"
    /\ pc' = "timeout_check"
    /\ UNCHANGED <<callVars, outdir_exists, cmd, spawn_count, start_time,
                   elapsed_time, captureVars, result, now, childVars,
                   term_sent, overrun>>
    /\ UNCHANGED printVars
    /\ UNCHANGED advances
    /\ UNCHANGED reportVars
    /\ UNCHANGED probeVars
    /\ UNCHANGED <<recVars, mainVars, emailVars>>

\* What lines 239-279 make of the return code.
Conclude(rc) ==
    IF rc # 0 THEN ExceptClauses(CalledProcessError(rc))
    ELSE ReturnValue(OutputPath)

\* Complete with an internal retry: after a non-zero exit the conversion
\* command is launched once more instead of the failure being raised.
Complete_Retry ==
    /\ pc = "poll"
    /\ child = "exited"
    /\ stdout_data' = stdout_data \o out_pipe
    /\ stderr_data' = stderr_data \o err_pipe
    /\ out_pipe' = <<>>
    /\ err_pipe' = <<>>
    /\ IF returncode # <<0>> /\ spawn_count < 2
       THEN /\ spawn_count' = spawn_count + 1
            /\ child' = "running"
            /\ returncode' = NoCode
            /\ pc' = "poll"
            /\ UNCHANGED result
       ELSE /\ result' = Conclude(returncode[1])
            /\ pc' = "returned"
            /\ UNCHANGED <<spawn_count, child, returncode>>
    /\ UNCHANGED <<callVars, outdir_exists, cmd, start_time,
                   elapsed_time, feeds_processed, out_buf, err_buf, now,
                   child_out, child_err, output_exists, term_sent, overrun>>
    /\ UNCHANGED printVars
    /\ UNCHANGED advances
    /\ UNCHANGED reportVars
    /\ UNCHANGED probeVars
    /\ UNCHANGED <<recVars, mainVars, emailVars>>

\* Lines 179 and 229-279, the child has exited: communicate() reads what is
\* left in the two pipes (it reads the file descriptors, not the buffers of
\* process.stdout and process.stderr), then the return code decides.
Complete ==
    /\ pc = "poll"
    /\ child = "exited"
    /\ stdout_data' = stdout_data \o out_pipe
    /\ stderr_data' = stderr_data \o err_pipe
    /\ out_pipe' = <<>>
    /\ err_pipe' = <<>>
    /\ result' = Conclude(returncode[1])
    /\ pc' = "returned"
    /\ UNCHANGED <<callVars, outdir_exists, cmd, spawn_count, start_time,
                   elapsed_time, feeds_processed, out_buf, err_buf, now, child,
                   returncode, child_out, child_err, output_exists, term_sent,
                   overrun>>
    /\ console' = console \o (IF returncode # <<0>>
                               THEN FailureReport(show_progress, stderr_data')
                               ELSE CompletionMessage(show_progress))
    /\ detail_log' = IF returncode # <<0>> THEN stderr_data' ELSE detail_log
    /\ summary' = IF returncode # <<0>> /\ show_progress
                  THEN LastLines(stderr_data', SummaryLines)
                  ELSE summary
    /\ UNCHANGED last_update
    /\ UNCHANGED advances
    /\ UNCHANGED probeVars
    /\ UNCHANGED <<recVars, mainVars, emailVars>>

\* TimedOut with the comparison off by one.
TimedOut_AtLimit(elapsed, limit) == elapsed >= limit

\* Line 182.
TimedOut(elapsed, limit) == elapsed > limit

\* Lines 181-188: the timeout check.  terminate() signals the child if it has
\* not exited yet, and does not wait for it.
TimeoutCheck ==
    /\ pc = "timeout_check"
    /\ elapsed_time' = now - start_time
    /\ IF TimedOut(now - start_time, timeout)
       THEN /\ term_sent' = (term_sent \/ child = "running")
            /\ console' = console \o TimeoutMessage(show_progress)
            /\ result' = ExceptClauses(Exception("TimeoutExpired", <<"timed out">>))
            /\ pc' = "returned"
       ELSE /\ pc' = "read_stdout"
            /\ UNCHANGED <<term_sent, result, console>>
    /\ UNCHANGED <<callVars, outdir_exists, cmd, spawn_count, start_time,
                   captureVars, now, childVars, overrun>>
    /\ UNCHANGED last_update
    /\ UNCHANGED advances
    /\ UNCHANGED reportVars
    /\ UNCHANGED probeVars
    /\ UNCHANGED <<recVars, mainVars, emailVars>>

\* readline() on a pipe returns once a line is at hand or the writer has
\* closed its end; until then it waits.
CanRead(buf, pipe) == buf # <<>> \/ pipe # <<>> \/ child # "running"

\* readline() of a buffered text stream: a line of the buffer if there is
\* one; else one read of the pipe, which takes all that is in it into the
\* buffer, and the first line of that; else '' (end of file).
ReadLine(buf, pipe) ==
    IF buf # <<>> THEN [got |-> <<Head(buf)>>, buf |-> Tail(buf), pipe |-> pipe]
    ELSE IF pipe # <<>> THEN [got |-> <<Head(pipe)>>, buf |-> Tail(pipe), pipe |-> <<>>]
    ELSE [got |-> <<>>, buf |-> buf, pipe |-> pipe]

\* Lines 191-209: one readline() on stdout; a line is stripped, appended
\* and counted if it announces a feed.
ReadStdout ==
    /\ pc = "read_stdout"
    /\ CanRead(out_buf, out_pipe)
    /\ LET r == ReadLine(out_buf, out_pipe) IN
       /\ out_buf' = r.buf
       /\ out_pipe' = r.pipe
       /\ IF r.got = <<>>
          THEN UNCHANGED <<stdout_data, feeds_processed, console>>
          ELSE /\ stdout_data' = Append(stdout_data, Strip(r.got[1]))
               /\ feeds_processed' = IF HasFeedMarker(r.got[1])
                                     THEN feeds_processed + 1
                                     ELSE feeds_processed
               /\ console' = console \o RenderStdout(r.got[1], feeds_processed',
                                                     show_progress)
    /\ pc' = "read_stderr"
    /\ UNCHANGED <<callVars, outdir_exists, cmd, spawn_count, start_time,
                   elapsed_time, stderr_data, err_buf, result, now, child,
                   returncode, child_out, child_err, err_pipe, output_exists,
                   term_sent, overrun>>
    /\ UNCHANGED last_update
    /\ UNCHANGED advances
    /\ UNCHANGED reportVars
    /\ UNCHANGED probeVars
    /\ UNCHANGED <<recVars, mainVars, emailVars>>

\* Lines 211-218: one readline() on stderr.
ReadStderr ==
    /\ pc = "read_stderr"
    /\ CanRead(err_buf, err_pipe)
    /\ LET r == ReadLine(err_buf, err_pipe) IN
       /\ err_buf' = r.buf
       /\ err_pipe' = r.pipe
       /\ IF r.got = <<>>
          THEN UNCHANGED <<stderr_data, console>>
          ELSE /\ stderr_data' = Append(stderr_data, Strip(r.got[1]))
               /\ console' = console \o RenderStderr(r.got[1], show_progress)
    /\ pc' = "sleep"
    /\ UNCHANGED <<callVars, outdir_exists, cmd, spawn_count, start_time,
                   elapsed_time, stdout_data, feeds_processed, out_buf, result,
                   now, child, returncode, child_out, child_err, out_pipe,
                   output_exists, term_sent, overrun>>
    /\ UNCHANGED last_update
    /\ UNCHANGED advances
    /\ UNCHANGED reportVars
    /\ UNCHANGED probeVars
    /\ UNCHANGED <<recVars, mainVars, emailVars>>

\* The child was still running when the elapsed time had passed the timeout
\* by more than one poll interval.
Overdue(t) == child = "running" /\ t - start_time > timeout + SleepTicks

\* Lines 220-227: the heartbeat if it is due, time.sleep(0.1), then back to
\* the head of the loop.
Sleep ==
    /\ pc = "sleep"
    /\ advances < MaxTime
    /\ advances' = advances + 1
    /\ IF HeartbeatDue(show_progress, now, last_update)
       THEN /\ console' = Append(console, Shown("heartbeat", elapsed_time))
            /\ last_update' = now
       ELSE UNCHANGED <<console, last_update>>
    /\ now' = now + SleepTicks
    /\ overrun' = (overrun \/ Overdue(now + SleepTicks))
    /\ pc' = "poll"
    /\ UNCHANGED <<callVars, outdir_exists, cmd, spawn_count, start_time,
                   elapsed_time, captureVars, result, childVars, term_sent>>
    /\ UNCHANGED reportVars
    /\ UNCHANGED probeVars
    /\ UNCHANGED <<recVars, mainVars, emailVars>>

\* The supervisor waits in a readline() that has nothing to return.
BlockedOnRead ==
    \/ pc = "read_stdout" /\ ~CanRead(out_buf, out_pipe)
    \/ pc = "read_stderr" /\ ~CanRead(err_buf, err_pipe)

\* Time passes while the supervisor waits in readline(), one poll interval
\* in this step; its other steps take no time.
Tick ==
    /\ BlockedOnRead
    /\ advances < MaxTime
    /\ advances' = advances + 1
    /\ now' = now + SleepTicks
    /\ overrun' = (overrun \/ Overdue(now + SleepTicks))
    /\ UNCHANGED <<pc, callVars, outdir_exists, cmd, spawn_count, start_time,
                   elapsed_time, captureVars, result, childVars, term_sent>>
    /\ UNCHANGED printVars
    /\ UNCHANGED reportVars
    /\ UNCHANGED probeVars
    /\ UNCHANGED <<recVars, mainVars, emailVars>>

\* A long wait lasts as long as the heartbeat interval, or one poll interval
\* longer.
LongWaits == {HeartbeatSeconds * TicksPerSecond,
              HeartbeatSeconds * TicksPerSecond + SleepTicks}

\* Time passes while the supervisor waits in readline(), as long as a
\* heartbeat interval in this step.
LongWait ==
    /\ BlockedOnRead
    /\ advances < MaxTime
    /\ advances' = advances + 1
    /\ \E d \in LongWaits :
          /\ now' = now + d
          /\ overrun' = (overrun \/ Overdue(now + d))
    /\ UNCHANGED <<pc, callVars, outdir_exists, cmd, spawn_count, start_time,
                   elapsed_time, captureVars, result, childVars, term_sent>>
    /\ UNCHANGED printVars
    /\ UNCHANGED reportVars
    /\ UNCHANGED probeVars
    /\ UNCHANGED <<recVars, mainVars, emailVars>>

(***************************************************************************)
(* The child process                                                       *)
(***************************************************************************)
ChildWriteOut ==
    /\ child = "running"
    /\ Len(child_out) + Len(child_err) < MaxLines
    /\ \E l \in OutLines :
          /\ child_out' = Append(child_out, l)
          /\ out_pipe' = Append(out_pipe, l)
    /\ UNCHANGED <<pc, callVars, outdir_exists, cmd, spawn_count, start_time,
                   elapsed_time, captureVars, result, now, child, returncode,
                   child_err, err_pipe, output_exists, term_sent, overrun>>
    /\ UNCHANGED printVars
    /\ UNCHANGED advances
    /\ UNCHANGED reportVars
    /\ UNCHANGED probeVars
    /\ UNCHANGED <<recVars, mainVars, emailVars>>

ChildWriteErr ==
    /\ child = "running"
    /\ Len(child_out) + Len(child_err) < MaxLines
    /\ \E l \in ErrLines :
          /\ child_err' = Append(child_err, l)
          /\ err_pipe' = Append(err_pipe, l)
    /\ UNCHANGED <<pc, callVars, outdir_exists, cmd, spawn_count, start_time,
                   elapsed_time, captureVars, result, now, child, returncode,
                   child_out, out_pipe, output_exists, term_sent, overrun>>
    /\ UNCHANGED printVars
    /\ UNCHANGED advances
    /\ UNCHANGED reportVars
    /\ UNCHANGED probeVars
    /\ UNCHANGED <<recVars, mainVars, emailVars>>

\* The child writes the file at output_path.
ChildWriteOutput ==
    /\ child = "running"
    /\ ~output_exists
    /\ output_exists' = TRUE
    /\ UNCHANGED <<pc, callVars, outdir_exists, cmd, spawn_count, start_time,
                   elapsed_time, captureVars, result, now, child, returncode,
                   child_out, child_err, out_pipe, err_pipe, term_sent, overrun>>
    /\ UNCHANGED printVars
    /\ UNCHANGED advances
    /\ UNCHANGED reportVars
    /\ UNCHANGED probeVars
    /\ UNCHANGED <<recVars, mainVars, emailVars>>

\* The child exits on its own.
ChildExit ==
    /\ child = "running"
    /\ \E c \in ExitCodes : returncode' = <<c>>
    /\ child' = "exited"
    /\ UNCHANGED <<pc, callVars, outdir_exists, cmd, spawn_count, start_time,
                   elapsed_time, captureVars, result, now, child_out, child_err,
                   out_pipe, err_pipe, output_exists, term_sent, overrun>>
    /\ UNCHANGED printVars
    /\ UNCHANGED advances
    /\ UNCHANGED reportVars
    /\ UNCHANGED probeVars
    /\ UNCHANGED <<recVars, mainVars, emailVars>>

\* The child dies of the SIGTERM that terminate() sent (exit code -15); a
\* child that handles or ignores the signal never takes this step.
ChildTerminated ==
    /\ child = "running"
    /\ term_sent
    /\ returncode' = <<-15>>
    /\ child' = "exited"
    /\ UNCHANGED <<pc, callVars, outdir_exists, cmd, spawn_count, start_time,
                   elapsed_time, captureVars, result, now, child_out, child_err,
                   out_pipe, err_pipe, output_exists, term_sent, overrun>>
    /\ UNCHANGED printVars
    /\ UNCHANGED advances
    /\ UNCHANGED reportVars
    /\ UNCHANGED probeVars
    /\ UNCHANGED <<recVars, mainVars, emailVars>>

NoRet == <<>>

MainIdle ==
    /\ mpc = "off" /\ args = <<>> /\ config_exists = FALSE /\ tool_probe = "ok"
    /\ email_config_exists = FALSE
    /\ feeds_config = <<>> /\ m_feeds = <<>> /\ fetch_calls = 0
    /\ recipe_calls = 0 /\ recipe_writes = 0 /\ email_calls = 0
    /\ raised_at = "" /\ main_ret = NoRet

(***************************************************************************)
(* EmailSender.send_email                                                  *)
(***************************************************************************)
\* The keys of email_config.json that send_email reads with self.config[...];
\* smtp_server stands for smtp_server and smtp_port, username for username
\* and password.
ConfigKeys == {"from_email", "to_email", "smtp_server", "username"}

EmailIdle ==
    /\ epc = "off" /\ e_config = {} /\ e_dry_run = FALSE
    /\ attachment_readable = FALSE /\ smtp_up = FALSE /\ login_ok = FALSE
    /\ smtp_connections = 0 /\ sent = 0 /\ e_ret = NoRet

\* The state at a call of send_email(attachment_path) on an EmailSender
\* constructed from a configuration file that loaded.
EmailInit ==
    /\ epc = "call"
    /\ e_config \in SUBSET ConfigKeys
    /\ e_dry_run \in BOOLEAN
    /\ attachment_readable \in BOOLEAN
    /\ smtp_up \in BOOLEAN
    /\ login_ok \in BOOLEAN
    /\ smtp_connections = 0 /\ sent = 0 /\ e_ret = NoRet

\* Lines 33-44: the message is built if the configuration names sender and
\* recipient and the attachment can be read; otherwise an exception is
\* raised.
MessageBuilt(cfg, readable) == {"from_email", "to_email"} \subseteq cfg /\ readable

\* SkipsDelivery that never skips.
SkipsDelivery_Never(dry_run) == FALSE

\* Line 46.
SkipsDelivery(dry_run) == dry_run

\* Lines 29-44 and 62-64: building the message raises; send_email returns
\* False.
EmailBuildFails ==
    /\ epc = "call"
    /\ ~MessageBuilt(e_config, attachment_readable)
    /\ e_ret' = <<FALSE>>
    /\ epc' = "returned"
    /\ UNCHANGED <<e_config, e_dry_run, attachment_readable, smtp_up, login_ok,
                   smtp_connections, sent>>
    /\ UNCHANGED <<supVars, recVars, mainVars>>

\* Lines 29-49: the message is built and the sender is in dry-run mode;
\* send_email returns True.
EmailDryRun ==
    /\ epc = "call"
    /\ MessageBuilt(e_config, attachment_readable)
    /\ SkipsDelivery(e_dry_run)
    /\ e_ret' = <<TRUE>>
    /\ epc' = "returned"
    /\ UNCHANGED <<e_config, e_dry_run, attachment_readable, smtp_up, login_ok,
                   smtp_connections, sent>>
    /\ UNCHANGED <<supVars, recVars, mainVars>>

\* Lines 52-54: the connection to the SMTP server; a missing smtp_server key
\* raises before the connection is tried, a server that is down raises in
\* it, and send_email then returns False.
EmailConnect ==
    /\ epc = "call"
    /\ MessageBuilt(e_config, attachment_readable)
    /\ ~SkipsDelivery(e_dry_run)
    /\ IF "smtp_server" \in e_config /\ smtp_up
       THEN /\ smtp_connections' = smtp_connections + 1
            /\ epc' = "connected"
            /\ UNCHANGED e_ret
       ELSE /\ e_ret' = <<FALSE>>
            /\ epc' = "returned"
            /\ UNCHANGED smtp_connections
    /\ UNCHANGED <<e_config, e_dry_run, attachment_readable, smtp_up, login_ok, sent>>
    /\ UNCHANGED <<supVars, recVars, mainVars>>

\* Lines 56-64: login and sendmail; a missing username key or a refused
\* login raises and send_email returns False.
EmailDeliver ==
    /\ epc = "connected"
    /\ IF "username" \in e_config /\ login_ok
       THEN /\ sent' = sent + 1
            /\ e_ret' = <<TRUE>>
       ELSE /\ e_ret' = <<FALSE>>
            /\ UNCHANGED sent
    /\ epc' = "returned"
    /\ UNCHANGED <<e_config, e_dry_run, attachment_readable, smtp_up, login_ok,
                   smtp_connections>>
    /\ UNCHANGED <<supVars, recVars, mainVars>>

EmailNext ==
    \/ EmailBuildFails
    \/ EmailDryRun
    \/ EmailConnect
    \/ EmailDeliver

(***************************************************************************)
(* create_recipe_file                                                      *)
(*                                                                         *)
(* Text is a sequence of tokens: a token is one of the characters that     *)
(* matter to the syntax of the recipe (quote, backslash, parentheses,      *)
(* comma, blank, newline) or a run of other characters.                    *)
(***************************************************************************)
Quote == "'"
Backslash == "\\"

FeedTitles == { <<"News">>,
                <<"Bob", Quote, "s">>,
                <<"x", Quote, ",", " ", Quote, "y">>,
                <<"a", Backslash>> }
FeedUrls == { <<"http://a.test/rss">>,
              <<"http://b.test/?q=", Quote>> }
DigestTitles == { <<"DayNews Daily Digest">>, <<"Bob", Quote, "s Digest">> }

FeedEntries == [title : FeedTitles, url : FeedUrls]

RECURSIVE SeqsUpTo(_, _)
\* The sequences over S of length at most n.
SeqsUpTo(S, n) ==
    IF n = 0 THEN {<<>>}
    ELSE LET shorter == SeqsUpTo(S, n - 1) IN
         shorter \cup {Append(q, x) : q \in shorter, x \in S}

NoFile == <<>>

OutputDirs == {"output", "tmp"}
NoPrev == [test_mode |-> FALSE, path |-> <<>>, file |-> NoFile]

RecIdle ==
    /\ rpc = "off" /\ feeds_data = <<>> /\ r_test_mode = FALSE
    /\ output_dir = "" /\ recipe_file = NoFile /\ r_recipe_path = <<>>
    /\ r_calls = 0 /\ r_prev = NoPrev

\* The state at a call of create_recipe_file(feeds_data, output_dir, test_mode).
RecInit ==
    /\ rpc = "call"
    /\ feeds_data \in [title : DigestTitles, feeds : SeqsUpTo(FeedEntries, MaxFeeds)]
    /\ r_test_mode \in BOOLEAN
    /\ output_dir \in OutputDirs
    /\ recipe_file = NoFile /\ r_recipe_path = <<>>
    /\ r_calls = 0 /\ r_prev = NoPrev

\* Lines 36-43: the article cap of the mode.
MaxArticlesPerFeed(tm) == IF tm THEN 1 ELSE 10

\* Line 72: feeds_data['feeds'][:1] in test mode, the whole list otherwise.
FeedList(feeds, tm) ==
    IF tm THEN SubSeq(feeds, 1, Min(1, Len(feeds))) ELSE feeds

\* Line 52: the text after 'title = ', the title put between quotes as it is.
TitleLiteral(title, tm) ==
    <<Quote>> \o (IF tm THEN <<"[", "TEST", "]", " ">> ELSE <<>>) \o title \o <<Quote>>

\* Line 75: one line of the feeds list, title and url put between quotes as
\* they are.
FeedLine(feed) ==
    <<"        ", "(", Quote>> \o feed.title \o <<Quote, ",", " ", Quote>>
    \o feed.url \o <<Quote, ")", ",", "\n">>

\* Lines 45-77: the content of the recipe.
RecipeContent(fd, tm) ==
    [title |-> TitleLiteral(fd.title, tm),
     max_articles_per_feed |-> MaxArticlesPerFeed(tm),
     feed_lines |-> [k \in 1..Len(FeedList(fd.feeds, tm)) |->
                        FeedLine(FeedList(fd.feeds, tm)[k])]]

\* Line 34: os.path.join(output_dir, "daynews_recipe.recipe").
JoinPath(dir, name) == <<dir, name>>

\* WriteFile that adds the feed lines to those already in the file.
WriteFile_Append(old, text) ==
    IF DOMAIN old = {} THEN text
    ELSE [text EXCEPT !.feed_lines = old.feed_lines \o text.feed_lines]

\* Lines 79-80: open(recipe_path, 'w') and write: the file holds the text
\* written and nothing of what it held before.
WriteFile(old, text) == text

\* Lines 29-83: the recipe is written to daynews_recipe.recipe in output_dir
\* and its path returned.
CreateRecipeFile ==
    /\ rpc = "call"
    /\ r_recipe_path' = JoinPath(output_dir, "daynews_recipe.recipe")
    /\ recipe_file' = WriteFile(recipe_file, RecipeContent(feeds_data, r_test_mode))
    /\ r_calls' = r_calls + 1
    /\ rpc' = "written"
    /\ UNCHANGED <<feeds_data, r_test_mode, output_dir, r_prev>>
    /\ UNCHANGED <<supVars, mainVars, emailVars>>

\* The caller calls create_recipe_file once more, with the same feed data and
\* output directory and in either mode.
CallAgain ==
    /\ rpc = "written"
    /\ r_calls < MaxCalls
    /\ r_prev' = [test_mode |-> r_test_mode, path |-> r_recipe_path,
                  file |-> recipe_file]
    /\ r_test_mode' \in BOOLEAN
    /\ rpc' = "call"
    /\ UNCHANGED <<feeds_data, output_dir, recipe_file, r_recipe_path, r_calls>>
    /\ UNCHANGED <<supVars, mainVars, emailVars>>

(***************************************************************************)
(* Reading a recipe back: Python's syntax of a single-quoted string        *)
(* literal, of a tuple of literals and of a list of tuples.                *)
(***************************************************************************)
Failed == [ok |-> FALSE, val |-> <<>>, next |-> 0]

RECURSIVE ScanString(_, _, _)
\* The rest of a string literal from position j, acc being its value so far:
\* a backslash escapes a quote or a backslash and is kept before anything
\* else; an unescaped quote ends the literal.
ScanString(s, j, acc) ==
    IF j > Len(s) THEN Failed
    ELSE IF s[j] = Quote THEN [ok |-> TRUE, val |-> acc, next |-> j + 1]
    ELSE IF s[j] = "\n" THEN Failed
    ELSE IF s[j] = Backslash
         THEN IF j + 1 > Len(s) THEN Failed
              ELSE IF s[j + 1] \in {Quote, Backslash}
                   THEN ScanString(s, j + 2, Append(acc, s[j + 1]))
                   ELSE ScanString(s, j + 2, acc \o <<Backslash, s[j + 1]>>)
    ELSE ScanString(s, j + 1, Append(acc, s[j]))

\* A string literal at position i.
ParseString(s, i) ==
    IF i <= Len(s) /\ s[i] = Quote THEN ScanString(s, i + 1, <<>>) ELSE Failed

IsBlank(tok) == tok \in {" ", "        ", "\n"}

RECURSIVE SkipBlanks(_, _)
SkipBlanks(s, i) ==
    IF i <= Len(s) /\ IsBlank(s[i]) THEN SkipBlanks(s, i + 1) ELSE i

RECURSIVE ParseElements(_, _, _)
\* The elements of a tuple from position i, after its opening parenthesis or
\* a comma; val is the sequence of the elements' values.
ParseElements(s, i, acc) ==
    LET e == ParseString(s, SkipBlanks(s, i)) IN
    IF ~e.ok THEN Failed
    ELSE LET k == SkipBlanks(s, e.next) IN
         IF k > Len(s) THEN Failed
         ELSE IF s[k] = ")" THEN [ok |-> TRUE, val |-> Append(acc, e.val), next |-> k + 1]
         ELSE IF s[k] = "," THEN ParseElements(s, k + 1, Append(acc, e.val))
         ELSE Failed

RECURSIVE ParseTuples(_, _, _)
\* The tuples of the feeds list from position i, each followed by a comma.
ParseTuples(s, i, acc) ==
    LET k == SkipBlanks(s, i) IN
    IF k > Len(s) THEN [ok |-> TRUE, val |-> acc, next |-> k]
    ELSE IF s[k] # "(" THEN Failed
    ELSE LET t == ParseElements(s, k + 1, <<>>) IN
         IF ~t.ok THEN Failed
         ELSE IF t.next > Len(s) \/ s[t.next] # "," THEN Failed
         ELSE ParseTuples(s, t.next + 1, Append(acc, t.val))

RECURSIVE Concat(_)
Concat(lines) == IF lines = <<>> THEN <<>> ELSE Head(lines) \o Concat(Tail(lines))

\* The feeds list of a recipe, read back.
ParseFeeds(file) == ParseTuples(Concat(file.feed_lines), 1, <<>>)

\* The title of a recipe, read back: one literal and nothing after it.
ParseTitle(file) ==
    LET t == ParseString(file.title, 1) IN
    IF t.ok /\ t.next = Len(file.title) + 1 THEN t ELSE Failed

RecNext ==
    \/ CreateRecipeFile
    \/ CallAgain

InitRecipe == RecInit /\ SupIdle /\ MainIdle /\ EmailIdle
RecipeSpec == InitRecipe /\ [][RecNext]_vars

InitEmail == EmailInit /\ SupIdle /\ RecIdle /\ MainIdle
EmailSpec == InitEmail /\ [][EmailNext]_vars

Init == SupInit /\ RecIdle /\ MainIdle /\ EmailIdle
Next ==
    \/ StartRecipeMissing
    \/ StartSpawnFails
    \/ StartSpawned
    \/ PollRunning
    \/ Complete
    \/ TimeoutCheck
    \/ ReadStdout
    \/ ReadStderr
    \/ Sleep
    \/ Tick
    \/ ChildWriteOut
    \/ ChildWriteErr
    \/ ChildWriteOutput
    \/ ChildExit
    \/ ChildTerminated
Spec == Init /\ [][Next]_vars

\* A call of generate_ebook with the default timeout, on a recipe that
\* exists, in which the child can stay silent for long.
HeartbeatInit ==
    /\ pc = "call"
    /\ test_mode = FALSE
    /\ low_memory = FALSE
    /\ timeout = DefaultTimeoutSeconds * TicksPerSecond
    /\ recipe_exists = TRUE
    /\ show_progress \in BOOLEAN
    /\ outdir_exists \in BOOLEAN
    /\ last_update = 0 /\ console = <<>> /\ advances = 0
    /\ detail_log = <<>> /\ summary = <<>>
    /\ cmd = <<>> /\ spawn_count = 0 /\ start_time = 0 /\ elapsed_time = 0
    /\ stdout_data = <<>> /\ stderr_data = <<>> /\ feeds_processed = 0
    /\ result = NoResult /\ now = 0 /\ child = "none" /\ returncode = NoCode
    /\ term_sent = FALSE /\ child_out = <<>> /\ child_err = <<>>
    /\ out_pipe = <<>> /\ err_pipe = <<>> /\ out_buf = <<>> /\ err_buf = <<>>
    /\ output_exists = FALSE /\ overrun = FALSE
    /\ help_probe = "ok" /\ warnings = <<>>

InitHeartbeat == HeartbeatInit /\ RecIdle /\ MainIdle /\ EmailIdle
HeartbeatNext ==
    \/ StartSpawnFails
    \/ StartSpawned
    \/ PollRunning
    \/ Complete
    \/ TimeoutCheck
    \/ ReadStdout
    \/ ReadStderr
    \/ Sleep
    \/ Tick
    \/ LongWait
    \/ ChildWriteOut
    \/ ChildWriteErr
    \/ ChildWriteOutput
    \/ ChildExit
HeartbeatSpec == InitHeartbeat /\ [][HeartbeatNext]_vars

\* The state at the end of the loop of generate_ebook, the child having
\* exited: the stderr lines captured so far, and what is left in the pipe.
ReportLines == {[words |-> <<"error">>, pad |-> FALSE],
                [words |-> <<"trace">>, pad |-> FALSE]}
ReportInit ==
    /\ pc = "poll"
    /\ test_mode = FALSE
    /\ low_memory = FALSE
    /\ timeout = DefaultTimeoutSeconds * TicksPerSecond
    /\ recipe_exists = TRUE
    /\ show_progress \in BOOLEAN
    /\ outdir_exists = TRUE
    /\ last_update = 0 /\ advances = 0
    /\ console = StartBanner(show_progress)
    /\ detail_log = <<>> /\ summary = <<>>
    /\ cmd = BuildCmd(RecipePath, OutputPath, low_memory, test_mode)
    /\ spawn_count = 1 /\ start_time = 0 /\ elapsed_time = 0
    /\ stderr_data \in SeqsUpTo(ReportLines, MaxErrLines)
    /\ err_pipe \in SeqsUpTo(ReportLines, 1)
    /\ child_err = stderr_data \o err_pipe
    /\ stdout_data = <<>> /\ feeds_processed = 0
    /\ result = NoResult /\ now = 0 /\ child = "exited"
    /\ returncode \in {<<c>> : c \in ExitCodes}
    /\ term_sent = FALSE /\ child_out = <<>>
    /\ out_pipe = <<>> /\ out_buf = <<>> /\ err_buf = <<>>
    /\ output_exists \in BOOLEAN /\ overrun = FALSE
    /\ help_probe = "ok" /\ warnings = <<>>

InitReport == ReportInit /\ RecIdle /\ MainIdle /\ EmailIdle
ReportNext ==
    \/ Complete
ReportSpec == InitReport /\ [][ReportNext]_vars

(***************************************************************************)
(* Claims about generate_ebook (specification Spec)                        *)
(***************************************************************************)
Returned == pc = "returned"

\* The call ended on the timeout path: RuntimeError("Ebook generation timed out").
TimeoutOutcome ==
    /\ result.kind = "raise"
    /\ result.msg = <<"Ebook generation timed out">>

\* The call ended by returning the output path.
SuccessOutcome == result.kind = "return" /\ result.value = OutputPath

\* C1: a run in which the child was still running when the elapsed time had
\* exceeded the timeout (by more than the poll interval the spec allows as
\* overshoot) ends with the Timeout outcome, and the child is not running
\* once the run has returned.
C1_OverrunEndsInTimeout ==
    (Returned /\ overrun) => (TimeoutOutcome /\ child # "running")

\* C2: in the Running state no read of stdout or stderr waits for the child
\* to produce output, so every poll iteration completes.
C2_NoReadWaits == ~BlockedOnRead

C4_MissingOutputIsNotSuccess ==
    (Returned /\ child = "exited" /\ returncode = <<0>> /\ ~output_exists)
        => ~SuccessOutcome

\* C5: when the child exited on its own with a non-zero code c, what the
\* caller receives carries exit code c, and captured stderr lines whenever the
\* child wrote to stderr.
C5_NonZeroExitCarried ==
    (Returned /\ child = "exited" /\ ~term_sent /\ returncode # <<0>>
        /\ elapsed_time <= timeout)
        => /\ result.returncode = returncode
           /\ child_err # <<>> => result.stderr # <<>>

\* C6: if the recipe file does not exist at the call, the run ends in a
\* failure and the conversion process is never spawned.
C6_MissingRecipeNeverSpawns ==
    ~recipe_exists =>
        /\ spawn_count = 0 /\ child = "none" /\ cmd = <<>>
        /\ Returned => (result.kind = "raise" /\ ~SuccessOutcome)

\* C6 witness: a call with a missing recipe has returned.
C6_Witness == Returned /\ ~recipe_exists /\ result.kind = "raise"

LowMemoryFlags == <<"--output-profile", "mobile", "--no-process-images">>

\* C10 as stated: the argument table of the spec.
C10_ArgumentTable ==
    cmd # <<>> =>
        /\ cmd = (IF test_mode
                  THEN <<"ebook-convert", RecipePath, OutputPath>>
                  ELSE <<"ebook-convert", RecipePath, OutputPath, "--verbose">>)
                 \o (IF low_memory THEN LowMemoryFlags ELSE <<>>)
        /\ cmd[2] = RecipePath
        /\ cmd[3] = OutputPath

\* C10 amended: tool, recipe, output and --verbose in both modes; the
\* low-memory flags when low_memory is requested or in test mode; and in test
\* mode '--timeout 10 --max-toc-links 1' after them.  The recipe path is
\* argument 1 and the output path argument 2.
C10_CommandLine ==
    cmd # <<>> =>
        /\ SubSeq(cmd, 1, 4) = <<"ebook-convert", RecipePath, OutputPath, "--verbose">>
        /\ (~test_mode /\ ~low_memory) => Len(cmd) = 4
        /\ (~test_mode /\ low_memory) =>
              /\ Len(cmd) = 7
              /\ SubSeq(cmd, 5, 7) = LowMemoryFlags
        /\ test_mode =>
              /\ Len(cmd) = 11
              /\ SubSeq(cmd, 5, 7) = LowMemoryFlags
              /\ SubSeq(cmd, 8, 11) = <<"--timeout", "10", "--max-toc-links", "1">>

\* C10 witness: a test-mode run without low_memory has launched its command.
C10_Witness == spawn_count = 1 /\ test_mode /\ ~low_memory /\ Len(cmd) = 11

RECURSIVE StripAll(_)
\* The lines of a transcript with their surrounding blanks removed.
StripAll(lines) ==
    IF lines = <<>> THEN <<>> ELSE <<Strip(Head(lines))>> \o StripAll(Tail(lines))

IsPrefix(a, b) == Len(a) <= Len(b) /\ SubSeq(b, 1, Len(a)) = a

\* The child exited on its own and the run ended on the return-code path.
CompletedOnItsOwn ==
    Returned /\ child = "exited" /\ ~term_sent /\ ~TimeoutOutcome

\* C14: at every point of a run the captured stdout lines are a prefix of the
\* lines the child wrote to stdout, in order, and likewise for stderr; once
\* the child has exited on its own and the final drain is done, each
\* transcript holds every line the child wrote to that stream.  (Lines are
\* compared without their surrounding blanks.)
C14_TranscriptsComplete ==
    /\ IsPrefix(StripAll(stdout_data), StripAll(child_out))
    /\ IsPrefix(StripAll(stderr_data), StripAll(child_err))
    /\ CompletedOnItsOwn =>
          /\ StripAll(stdout_data) = StripAll(child_out)
          /\ StripAll(stderr_data) = StripAll(child_err)

\* C17 as stated, its last part: a child that has exited on its own is never
\* reported as timed out.
C17_ExitedChildNeverTimedOut ==
    (Returned /\ child = "exited" /\ ~term_sent) => ~TimeoutOutcome

\* C17 amended: the child is signalled only in the timeout check, when the
\* elapsed time exceeds the timeout and the child is still running; the
\* timeout is reported only when the elapsed time read in that check exceeds
\* the timeout; and a child that poll() has seen exited is never signalled
\* and never reported as timed out.
C17_TerminateOnlyOnTimeout ==
    /\ [](TimeoutOutcome => elapsed_time > timeout)
    /\ [](term_sent => (Returned /\ TimeoutOutcome))
    /\ [][(~term_sent /\ term_sent') =>
            (pc = "timeout_check" /\ child = "running"
             /\ now - start_time > timeout)]_vars
    /\ [][(pc = "poll" /\ child = "exited" /\ pc' = "returned") =>
            (~term_sent' /\ ~TimeoutOutcome')]_vars

\* C17 witness: a run has ended on the timeout path with the child signalled.
C17_Witness == Returned /\ term_sent /\ TimeoutOutcome /\ elapsed_time > timeout

\* C18: one call of generate_ebook launches the conversion process at most
\* once, whatever the outcome, and every failure reaches the caller.
C18_NoInternalRetry ==
    /\ spawn_count <= 1
    /\ (Returned /\ child = "exited" /\ returncode # <<0>>) => result.kind = "raise"
    /\ (Returned /\ child # "none" /\ elapsed_time > timeout) => result.kind = "raise"
    /\ (Returned /\ child = "none") => result.kind = "raise"

\* C18 witness: a run whose child exited with code 1 has ended, after one
\* launch, with the failure raised.
C18_Witness ==
    /\ Returned /\ spawn_count = 1 /\ returncode = <<1>>
    /\ result.kind = "raise" /\ ~TimeoutOutcome

\* C19: with show_progress false the run prints nothing on any path.
C19_SilentWhenProgressOff == ~show_progress => console = <<>>

\* The step captured a line of stdout, or of stderr.
CapturedStdout == pc = "read_stdout" /\ stdout_data' # stdout_data
CapturedStderr == pc = "read_stderr" /\ stderr_data' # stderr_data

\* What the step put on the console: the tag of the message, "" if none.
RenderedTag ==
    IF console' = console THEN ""
    ELSE IF Len(console') = Len(console) + 1 THEN console'[Len(console')].tag
    ELSE "several"

RECURSIVE CountFeedStarts(_)
\* The number of lines of a transcript that carry the feed-start marker.
CountFeedStarts(lines) ==
    IF lines = <<>> THEN 0
    ELSE (IF Contains(Head(lines), "Processing feed") THEN 1 ELSE 0)
         + CountFeedStarts(Tail(lines))

\* C21: every captured line has gone through the progress handling before
\* the outcome is produced; after a run that completed on its own the feed
\* counter equals the number of captured stdout lines that carry the
\* feed-start marker.
C21_EveryCapturedLineCounted ==
    CompletedOnItsOwn => feeds_processed = CountFeedStarts(stdout_data)

\* The step put a heartbeat on the console.
HeartbeatEmitted ==
    /\ Len(console') = Len(console) + 1
    /\ console'[Len(console')].tag = "heartbeat"

C23_BoundedSummaryFullLog ==
    (Returned /\ child = "exited" /\ returncode # <<0>> /\ ~TimeoutOutcome) =>
        /\ detail_log = stderr_data
        /\ Len(summary) <= 10
        /\ \E k \in 0..Len(stderr_data) :
              summary = SubSeq(stderr_data, k + 1, Len(stderr_data))
        /\ show_progress => Len(summary) = Min(Len(stderr_data), 10)
        /\ console[Len(console)] = Shown("troubleshooting", 0)
        /\ show_progress =>
              console[Len(console) - 1] = Shown("error_details", Len(summary))

\* C23 witness: a run with more than ten captured stderr lines, not all the
\* same, has ended on a non-zero exit with the error details shown.
C23_Witness ==
    /\ Returned /\ returncode = <<1>> /\ show_progress
    /\ Len(stderr_data) > 10 /\ Len(summary) = 10
    /\ stderr_data[1] # stderr_data[2]
    /\ detail_log = stderr_data

(***************************************************************************)
(* Claims about create_recipe_file (specification RecipeSpec)              *)
(***************************************************************************)
Written == rpc = "written"

\* C8: for every input feed list, the empty one included, a recipe built in
\* test mode holds exactly one feed entry and max_articles_per_feed = 1.
C8_TestRecipeHasOneFeed ==
    (Written /\ r_test_mode) =>
        /\ Len(recipe_file.feed_lines) = 1
        /\ recipe_file.max_articles_per_feed = 1

\* The title and the feeds that the recipe was built from.
WrittenTitle ==
    (IF r_test_mode THEN <<"[", "TEST", "]", " ">> ELSE <<>>) \o feeds_data.title
WrittenFeeds ==
    LET fl == FeedList(feeds_data.feeds, r_test_mode) IN
    [k \in 1..Len(fl) |-> <<fl[k].title, fl[k].url>>]

\* C9: every title and URL written into the recipe, those with a quote
\* included, reads back as the original string, and the recipe stays
\* well-formed with its feed tuples unchanged in number and bounds.
C9_LiteralsRoundTrip ==
    Written =>
        /\ ParseTitle(recipe_file).ok
        /\ ParseTitle(recipe_file).val = WrittenTitle
        /\ ParseFeeds(recipe_file).ok
        /\ ParseFeeds(recipe_file).val = WrittenFeeds

ToolProbes == {"ok", "nonzero", "notfound", "noexec"}

\* A feed of feeds.json: usable, without a url, with a url that has no scheme
\* or host, with a url whose feed has no entries, or with a url on which
\* feedparser.parse raises.
FeedKinds == {"ok", "no_url", "bad_url", "no_entries", "parse_raises"}

\* Values of --max-articles: the default and another one.
MaxArticlesArgs == {5, 10}

\* Lines 49-50: test mode overrides --max-articles.
ParsedArgs(a) == IF a.test THEN [a EXCEPT !.max_articles = 1] ELSE a

\* The state at the start of main, after the command line is parsed and the
\* test-mode overrides are made.
MainInit ==
    /\ mpc = "start"
    /\ \E a \in [test : BOOLEAN, send_email : BOOLEAN, low_memory : BOOLEAN,
                  max_articles : MaxArticlesArgs] : args = ParsedArgs(a)
    /\ config_exists \in BOOLEAN
    /\ email_config_exists \in BOOLEAN
    /\ tool_probe \in ToolProbes
    /\ feeds_config \in SeqsUpTo(FeedKinds, MaxFeeds)
    /\ m_feeds = <<>> /\ fetch_calls = 0
    /\ recipe_calls = 0 /\ recipe_writes = 0 /\ email_calls = 0
    /\ raised_at = "" /\ main_ret = NoRet

\* VerifyCalibreInstalled without the probe: construction always succeeds.
VerifyCalibreInstalled_NoProbe(probe) == "ok"

\* _verify_calibre_installed: subprocess.run(..., check=True) raises
\* CalledProcessError on a non-zero exit and FileNotFoundError when the tool
\* is not found, both turned into RuntimeError; any other OSError leaves the
\* constructor as it is.
VerifyCalibreInstalled(probe) ==
    CASE probe = "ok" -> "ok"
      [] probe \in {"nonzero", "notfound"} -> "RuntimeError"
      [] OTHER -> "PermissionError"

\* ProcessFeeds that goes through every feed in either mode.
ProcessFeeds_Whole(cfg, tm) == cfg

\* Line 47 of feed_manager.py: the feeds that fetch_feeds goes through.
ProcessFeeds(cfg, tm) == IF tm THEN SubSeq(cfg, 1, Min(1, Len(cfg))) ELSE cfg

\* Lines 56-68 of feed_manager.py: the feed has a url with scheme and host,
\* so feedparser.parse is called on it.
UrlAccepted(kind) == kind \in {"ok", "no_entries", "parse_raises"}

RECURSIVE CountAccepted(_)
CountAccepted(feeds) ==
    IF feeds = <<>> THEN 0
    ELSE (IF UrlAccepted(Head(feeds)) THEN 1 ELSE 0) + CountAccepted(Tail(feeds))

RECURSIVE Fetched(_, _)
\* Lines 54-95 of feed_manager.py: the entries of feeds_data['feeds'], one for
\* each feed with an accepted url and at least one entry; a feed is named by
\* its position in feeds.json.
Fetched(feeds, k) ==
    IF feeds = <<>> THEN <<>>
    ELSE (IF Head(feeds) = "ok" THEN <<[title |-> k, url |-> k]>> ELSE <<>>)
         \o Fetched(Tail(feeds), k + 1)

\* NoFeeds that never finds the list empty.
NoFeeds_Never(feeds) == FALSE

\* Line 83: not feeds_data['feeds'].
NoFeeds(feeds) == feeds = <<>>

\* Line 122: the email is to be sent when asked for, and in normal mode.
EmailWanted(a) == a.send_email \/ (~a.test /\ ~a.send_email)

\* NotifyAfter with the email block in a finally clause: it runs whether or
\* not an exception was raised.
NotifyAfter_Finally(raised, a, cfg) == IF EmailWanted(a) /\ cfg THEN 1 ELSE 0

\* Lines 58-150: the number of send_email calls made once the steps before
\* the email block are over.  An exception raised in the try body skips the
\* rest of the body, the email block of lines 121-130 included, and no
\* handler of lines 134-150 sends anything; otherwise the email is sent if
\* wanted and email_config.json exists.
NotifyAfter(raised, a, cfg) ==
    IF raised THEN 0 ELSE IF EmailWanted(a) /\ cfg THEN 1 ELSE 0

\* The parameters of create_recipe_file and the keywords main calls it with.
CreateRecipeParams == {"feeds_data", "output_dir", "test_mode"}
MainCallKeywords == {"max_articles", "test_mode"}

\* Handlers without the clause for Exception: an exception of another type
\* leaves main, which returns nothing.
Handlers_NamedOnly(exc) ==
    IF exc \in {"FileNotFoundError", "CalledProcessError"} THEN <<1>> ELSE NoRet

\* Lines 134-150: the except clauses that close the try statement of main,
\* for FileNotFoundError, for CalledProcessError and for Exception; each
\* reports the error and returns 1.
Handlers(exc) ==
    CASE exc = "FileNotFoundError" -> <<1>>
      [] exc = "CalledProcessError" -> <<1>>
      [] OTHER -> <<1>>

\* Lines 68-72: feeds.json is missing.
MainConfigMissing ==
    /\ mpc = "start"
    /\ ~config_exists
    /\ raised_at' = "main.config"
    /\ main_ret' = Handlers("FileNotFoundError")
    /\ mpc' = "done"
    /\ email_calls' = email_calls + NotifyAfter(TRUE, args, email_config_exists)
    /\ UNCHANGED <<args, config_exists, email_config_exists, tool_probe,
                   feeds_config, m_feeds, fetch_calls, recipe_calls, recipe_writes>>
    /\ UNCHANGED <<supVars, recVars, emailVars>>

\* Lines 74-76: FeedManager loads feeds.json, EbookGenerator() probes the
\* tool; an exception of the probe ends main with 1.
MainInitComponents ==
    /\ mpc = "start"
    /\ config_exists
    /\ IF VerifyCalibreInstalled(tool_probe) = "ok"
       THEN /\ mpc' = "fetch"
            /\ UNCHANGED <<raised_at, main_ret, email_calls>>
       ELSE /\ raised_at' = "EbookGenerator.__init__"
            /\ main_ret' = Handlers(VerifyCalibreInstalled(tool_probe))
            /\ mpc' = "done"
            /\ email_calls' = email_calls
                              + NotifyAfter(TRUE, args, email_config_exists)
    /\ UNCHANGED <<args, config_exists, email_config_exists, tool_probe,
                   feeds_config, m_feeds, fetch_calls, recipe_calls, recipe_writes>>
    /\ UNCHANGED <<supVars, recVars, emailVars>>

\* Lines 78-80: fetch_feeds.
MainFetchFeeds ==
    /\ mpc = "fetch"
    /\ m_feeds' = Fetched(ProcessFeeds(feeds_config, args.test), 1)
    /\ fetch_calls' = fetch_calls + CountAccepted(ProcessFeeds(feeds_config, args.test))
    /\ mpc' = "check_feeds"
    /\ UNCHANGED <<args, config_exists, email_config_exists, tool_probe,
                   feeds_config, recipe_calls, recipe_writes, email_calls,
                   raised_at, main_ret>>
    /\ UNCHANGED <<supVars, recVars, emailVars>>

\* Lines 82-85: no feed was fetched.
MainNoFeeds ==
    /\ mpc = "check_feeds"
    /\ NoFeeds(m_feeds)
    /\ raised_at' = "main.no_feeds"
    /\ main_ret' = Handlers("ValueError")
    /\ mpc' = "done"
    /\ email_calls' = email_calls + NotifyAfter(TRUE, args, email_config_exists)
    /\ UNCHANGED <<args, config_exists, email_config_exists, tool_probe,
                   feeds_config, m_feeds, fetch_calls, recipe_calls, recipe_writes>>
    /\ UNCHANGED <<supVars, recVars, emailVars>>

\* Lines 87-97: the call of create_recipe_file.  A keyword that is no
\* parameter of it makes the call raise TypeError before its body runs.
MainCreateRecipe ==
    /\ mpc = "check_feeds"
    /\ ~NoFeeds(m_feeds)
    /\ recipe_calls' = recipe_calls + 1
    /\ IF MainCallKeywords \subseteq CreateRecipeParams
       THEN /\ recipe_writes' = recipe_writes + 1
            /\ mpc' = "generate"
            /\ UNCHANGED <<raised_at, main_ret, email_calls>>
       ELSE /\ raised_at' = "main.create_recipe_file"
            /\ main_ret' = Handlers("TypeError")
            /\ mpc' = "done"
            /\ email_calls' = email_calls
                              + NotifyAfter(TRUE, args, email_config_exists)
            /\ UNCHANGED recipe_writes
    /\ UNCHANGED <<args, config_exists, email_config_exists, tool_probe,
                   feeds_config, m_feeds, fetch_calls>>
    /\ UNCHANGED <<supVars, recVars, emailVars>>

MainNext ==
    \/ MainConfigMissing
    \/ MainInitComponents
    \/ MainFetchFeeds
    \/ MainNoFeeds
    \/ MainCreateRecipe

InitMain == MainInit /\ SupIdle /\ RecIdle /\ EmailIdle

MainSpec == InitMain /\ [][MainNext]_vars

\* EbookGenerator(): __init__ runs _verify_calibre_installed; an exception
\* of it leaves the constructor and there is no instance to call.
Construct ==
    /\ pc = "new"
    /\ IF VerifyCalibreInstalled(tool_probe) = "ok"
       THEN /\ pc' = "call"
            /\ UNCHANGED result
       ELSE /\ pc' = "no_instance"
            /\ result' = Exception(VerifyCalibreInstalled(tool_probe),
                                   <<"ebook-convert --version">>)
    /\ UNCHANGED <<callVars, outdir_exists, cmd, spawn_count, start_time,
                   elapsed_time, captureVars, now, childVars, term_sent, overrun>>
    /\ UNCHANGED printVars
    /\ UNCHANGED advances
    /\ UNCHANGED reportVars
    /\ UNCHANGED probeVars
    /\ UNCHANGED <<recVars, mainVars, emailVars>>

\* The state before EbookGenerator() is constructed and generate_ebook
\* called with its default low_memory and show_progress, each of the two
\* probes of the tool ending in any of its ways.
ProbeInit ==
    /\ pc = "new"
    /\ test_mode = FALSE
    /\ low_memory = TRUE
    /\ timeout \in Timeouts
    /\ recipe_exists \in BOOLEAN
    /\ show_progress = TRUE
    /\ outdir_exists = TRUE
    /\ last_update = 0 /\ console = <<>> /\ advances = 0
    /\ detail_log = <<>> /\ summary = <<>>
    /\ cmd = <<>> /\ spawn_count = 0 /\ start_time = 0 /\ elapsed_time = 0
    /\ stdout_data = <<>> /\ stderr_data = <<>> /\ feeds_processed = 0
    /\ result = NoResult /\ now = 0 /\ child = "none" /\ returncode = NoCode
    /\ term_sent = FALSE /\ child_out = <<>> /\ child_err = <<>>
    /\ out_pipe = <<>> /\ err_pipe = <<>> /\ out_buf = <<>> /\ err_buf = <<>>
    /\ output_exists = FALSE /\ overrun = FALSE
    /\ help_probe \in HelpProbes /\ warnings = <<>>
    /\ tool_probe \in ToolProbes
    /\ mpc = "off" /\ args = <<>> /\ config_exists = FALSE
    /\ email_config_exists = FALSE
    /\ feeds_config = <<>> /\ m_feeds = <<>> /\ fetch_calls = 0
    /\ recipe_calls = 0 /\ recipe_writes = 0 /\ email_calls = 0
    /\ raised_at = "" /\ main_ret = NoRet

InitProbe == ProbeInit /\ RecIdle /\ EmailIdle
ProbeNext ==
    \/ Construct
    \/ StartRecipeMissing
    \/ StartSpawnFails
    \/ StartSpawned
    \/ PollRunning
    \/ Complete
    \/ TimeoutCheck
    \/ ReadStdout
    \/ ReadStderr
    \/ Sleep
    \/ Tick
    \/ ChildWriteOut
    \/ ChildWriteErr
    \/ ChildWriteOutput
    \/ ChildExit
    \/ ChildTerminated
ProbeSpec == InitProbe /\ [][ProbeNext]_vars

\* The probes have not stopped the call: generate_ebook has passed the
\* start of the conversion command.
PastStart == pc \notin {"new", "no_instance", "call"} /\ recipe_exists

\* C25: a failure of the "--help" probe inside generate_ebook (a non-zero
\* exit code, the probe not ending in time, or an exception) is written as a
\* warning and nothing more, and the conversion command is still started;
\* a failure of the "--version" probe at construction leaves the constructor
\* as an exception, so that generate_ebook is never called and nothing is
\* started.
C25_HelpProbeWarnsVersionProbeIsFatal ==
    /\ PastStart =>
          /\ spawn_count = 1
          /\ cmd # <<>>
          /\ (help_probe = "ok") <=> (warnings = <<>>)
          /\ result.kind = "raise" => result.msg # <<"Failed to generate ebook", "ebook-convert --help">>
    /\ (pc # "new" /\ tool_probe # "ok") =>
          /\ pc = "no_instance"
          /\ result.kind = "raise"
          /\ spawn_count = 0 /\ cmd = <<>> /\ warnings = <<>> /\ child = "none"
    /\ (pc = "no_instance") => tool_probe # "ok"

\* C25 witness: the "--help" probe did not end in time, a warning was
\* written, and the child of the conversion command has run to its end and
\* the call returned the output path.
C25_Witness ==
    /\ help_probe = "timeout" /\ warnings = <<"help_error">>
    /\ spawn_count = 1 /\ pc = "returned" /\ result.kind = "return"

(***************************************************************************)
(* Claims about main (specification MainSpec)                              *)
(***************************************************************************)
\* C7: when the conversion tool cannot be invoked, the failure is raised at
\* the construction of EbookGenerator, and main has then fetched no feed and
\* written no recipe.
C7_ToolMissingFailsFirst ==
    tool_probe # "ok" =>
        /\ fetch_calls = 0
        /\ recipe_writes = 0
        /\ mpc \in {"start", "done"}
        /\ (mpc = "done" /\ config_exists) =>
              /\ raised_at = "EbookGenerator.__init__"
              /\ main_ret = <<1>>

C12_EmptyFeedListRejected ==
    (~args.test /\ mpc \in {"generate", "done"}
     /\ raised_at \notin {"main.config", "EbookGenerator.__init__"}
     /\ m_feeds = <<>>) =>
        /\ mpc = "done"
        /\ raised_at = "main.no_feeds"
        /\ main_ret = <<1>>
        /\ recipe_calls = 0 /\ recipe_writes = 0
        /\ spawn_count = 0 /\ child = "none"

\* C12 witness: a normal-mode run over a feeds.json whose only feed has no
\* entries has ended.
C12_Witness ==
    /\ ~args.test /\ mpc = "done" /\ feeds_config = <<"no_entries">>
    /\ fetch_calls = 1 /\ m_feeds = <<>> /\ raised_at = "main.no_feeds"

\* C13: in normal mode main's call of create_recipe_file, which passes the
\* configured article cap, builds the recipe.
C13_MainCallBuildsRecipe ==
    (~args.test /\ recipe_calls > 0) =>
        /\ recipe_writes = recipe_calls
        /\ raised_at # "main.create_recipe_file"

FeedsFetched ==
    /\ mpc \in {"check_feeds", "generate", "done"}
    /\ raised_at \notin {"main.config", "EbookGenerator.__init__"}

C7_Witness ==
    /\ mpc = "done" /\ tool_probe = "notfound" /\ config_exists
    /\ \E k \in 1..Len(feeds_config) : feeds_config[k] = "ok"
    /\ raised_at = "EbookGenerator.__init__"

(***************************************************************************)
(* Claims about EmailSender.send_email (specification EmailSpec)           *)
(***************************************************************************)
EmailReturned == epc = "returned"

====
